---- MODULE Spec2Model ----
(***************************************************************************)
(* Layered package resolution and configuration merge of mantl-api         *)
(* (src/repository/repository.go: package repository and package install). *)
(*                                                                         *)
(* Strings are sequences of one-character strings, so that TrimSpace,      *)
(* EqualFold and Go's bytewise string order are computed and not assumed.  *)
(* JSON values are tagged records: Num(n), Str(s), Obj(m) with m a         *)
(* function from keys to values, and Nil for Go's nil interface.           *)
(* A stored document is [kind, val]: absent (no key), empty (zero bytes),  *)
(* garbage (bytes json.Unmarshal rejects) or json (bytes that unmarshal    *)
(* to val).                                                                *)
(***************************************************************************)
EXTENDS Integers, Sequences, FiniteSets, TLC

VARIABLES
    names,      \* layer indexes i for which the key <root>/<i>/name exists
    indexDoc,   \* <root>/0/repo/meta/index.json
    docs,       \* <root>/<i>/repo/packages/<C>/<N>/<R>/<document>, the keys that exist
    failKey,    \* the key whose kv.Get returns a store-level error, if any
    op,         \* the handler that ran last
    req,        \* its request
    packages,   \* the catalog getPackages returned
    def,        \* the bundle GetPackageDefinition returned
    err,        \* the error (or panic) the handler ended with
    px, py,     \* inputs of the configuration functions
    pout        \* their result

vars == <<names, indexDoc, docs, failKey, op, req, packages, def, err, px, py, pout>>

storeVars == <<names, indexDoc, docs, failKey>>
configVars == <<px, py, pout>>

\* Highest layer index of the store (layers 0..MaxLayer).
MaxLayer == 2
\* Most documents stored under the packages of all layers together.
MaxDocs == 2

---------------------------------------------------------------------------
(* Strings *)

Space == " "

\* unicode.SimpleFold restricted to the letters the model's strings use.
Lower(c) ==
    CASE c = "Z" -> "z"
      [] c = "K" -> "k"
      [] c = "V" -> "v"
      [] OTHER -> c

RECURSIVE TrimLeft(_)
TrimLeft(s) ==
    IF s # <<>> /\ Head(s) = Space THEN TrimLeft(Tail(s)) ELSE s

RECURSIVE TrimRight(_)
TrimRight(s) ==
    IF s # <<>> /\ s[Len(s)] = Space THEN TrimRight(SubSeq(s, 1, Len(s) - 1)) ELSE s

TrimSpace(s) == TrimRight(TrimLeft(s))

EqualFold(s, t) ==
    /\ Len(s) = Len(t)
    /\ \A i \in 1..Len(s) : Lower(s[i]) = Lower(t[i])

\* The byte of a digit.
Ord(c) ==
    CASE c = "0" -> 48
      [] c = "1" -> 49
      [] c = "5" -> 53
      [] c = "7" -> 55
      [] c = "9" -> 57
      [] OTHER -> 0

\* Go's s < t on strings: bytewise lexicographic.
StrLess(s, t) ==
    \/ /\ Len(s) < Len(t)
       /\ \A i \in 1..Len(s) : s[i] = t[i]
    \/ \E i \in 1..Len(s) :
          /\ i <= Len(t)
          /\ \A j \in 1..(i - 1) : s[j] = t[j]
          /\ Ord(s[i]) < Ord(t[i])

---------------------------------------------------------------------------
(* JSON values and documents *)

Nil == [k |-> "nil"]
Num(n) == [k |-> "num", n |-> n]
Str(s) == [k |-> "str", s |-> s]
Obj(m) == [k |-> "obj", m |-> m]
IsMap(v) == v.k = "obj"

EmptyMap == <<>>

\* All the mappings from a subset of keys to vals.
Maps(keys, vals) == UNION {[d -> vals] : d \in SUBSET keys}

AbsentDoc == [kind |-> "absent", val |-> <<>>]
EmptyDoc == [kind |-> "empty", val |-> <<>>]
GarbageDoc == [kind |-> "garbage", val |-> <<>>]
JsonDoc(v) == [kind |-> "json", val |-> v]

\* len(data) of a document's bytes.
NonEmpty(d) == d.kind \in {"json", "garbage"}

---------------------------------------------------------------------------
(* packageConfigGroup.defaultConfig, mergeConfig, packageDefinition *)

Group(type, default, properties) ==
    [Type |-> type, Default |-> default, Properties |-> properties]

defaultConfigNoObject(g) ==
    [n \in {m \in DOMAIN g.Properties : g.Properties[m].Default # Nil} |->
        g.Properties[n].Default]

RECURSIVE defaultConfig(_)
defaultConfig(g) ==
    [n \in {m \in DOMAIN g.Properties :
                \/ g.Properties[m].Default # Nil
                \/ g.Properties[m].Type = "object"} |->
        IF g.Properties[n].Default # Nil
        THEN g.Properties[n].Default
        ELSE Obj(defaultConfig(g.Properties[n]))]

mergeConfigShallow(config, override) ==
    [k \in DOMAIN config \cup DOMAIN override |->
        IF k \in DOMAIN override THEN override[k] ELSE config[k]]

RECURSIVE mergeConfig(_, _)
mergeConfig(config, override) ==
    [k \in DOMAIN config \cup DOMAIN override |->
        IF k \notin DOMAIN override
        THEN config[k]
        ELSE IF k \in DOMAIN config /\ IsMap(config[k]) /\ IsMap(override[k])
             THEN Obj(mergeConfig(config[k].m, override[k].m))
             ELSE override[k]]

NoDefinition ==
    [ok |-> FALSE, name |-> <<>>, version |-> <<>>, release |-> <<>>,
     commandJson |-> EmptyDoc, configJson |-> EmptyDoc, marathonJson |-> EmptyDoc,
     packageJson |-> EmptyDoc, optionsJson |-> EmptyDoc, frameworkName |-> <<>>]

IsValidWithCommand(d) ==
    /\ NonEmpty(d.commandJson)
    /\ NonEmpty(d.configJson)
    /\ NonEmpty(d.marathonJson)
    /\ NonEmpty(d.packageJson)

IsValid(d) ==
    /\ NonEmpty(d.configJson)
    /\ NonEmpty(d.marathonJson)
    /\ NonEmpty(d.packageJson)

\* [err, val]: the schema, the zero packageConfigGroup for an empty document.
ConfigSchema(d) ==
    IF NonEmpty(d.configJson)
    THEN IF d.configJson.kind = "garbage"
         THEN [err |-> "SchemaParseError", val |-> Group("", Nil, EmptyMap)]
         ELSE [err |-> "nil", val |-> d.configJson.val]
    ELSE [err |-> "nil", val |-> Group("", Nil, EmptyMap)]

\* [err, val]: the options, the nil map (no entries) for an empty document.
Options(d) ==
    IF NonEmpty(d.optionsJson)
    THEN IF d.optionsJson.kind = "garbage"
         THEN [err |-> "OptionsParseError", val |-> EmptyMap]
         ELSE [err |-> "nil", val |-> d.optionsJson.val]
    ELSE [err |-> "nil", val |-> EmptyMap]

MergedConfig(d) ==
    LET schema == ConfigSchema(d)
        options == Options(d)
    IN  IF schema.err # "nil"
        THEN [err |-> schema.err, val |-> EmptyMap]
        ELSE IF options.err # "nil"
             THEN [err |-> options.err, val |-> EmptyMap]
             ELSE [err |-> "nil", val |-> mergeConfig(defaultConfig(schema.val), options.val)]

---------------------------------------------------------------------------
(* The key-value store *)

NoKey == [t |-> "none", k |-> <<>>]
NameKey(i) == [t |-> "name", k |-> <<i>>]
IndexKey == [t |-> "index", k |-> <<0>>]
\* path.Join(repo.PackagesKey(), pkg.PackageVersionKey(index), document)
DocKey(i, n, r, d) == [t |-> "doc", k |-> <<i, n, r, d>>]

Idx == 0..MaxLayer

DocNames == {"command.json", "config.json", "marathon.json", "package.json", "mantl.json"}

zk == <<"z", "k">>
Kafka == <<"K", "a", "f", "k", "a">>

v1 == <<"v", "1">>
V2 == <<"V", "2">>
v9 == <<"v", "9">>

\* The candidate versions of zk (version |-> release index): "9" is
\* lexicographically greater than "10".
ZkVersions == [v \in {v1, V2} |-> IF v = v1 THEN <<"9">> ELSE <<"1", "0">>]
KafkaVersions == [v \in {<<"1">>} |-> <<"7">>]

Restrict(f, S) == [x \in S |-> f[x]]

\* <package name, release index> of every version the index may declare.
PkgRel == {<<zk, <<"9">>>>, <<zk, <<"1", "0">>>>, <<Kafka, <<"7">>>>}

DocKeys == {<<i, pr[1], pr[2], d>> : i \in Idx, pr \in PkgRel, d \in DocNames}

TheStore == [names |-> names, indexDoc |-> indexDoc, docs |-> docs, failKey |-> failKey]

\* The document stored at a key.
DocAt(st, k) == IF k \in DOMAIN st.docs THEN st.docs[k] ELSE AbsentDoc

\* kv.Get of a document key: [err, doc]; on a store error the pair is nil.
KvGetDocKeepingPair(st, i, n, r, d) ==
    [err |-> st.failKey = DocKey(i, n, r, d), doc |-> DocAt(st, <<i, n, r, d>>)]

KvGetDoc(st, i, n, r, d) ==
    IF st.failKey = DocKey(i, n, r, d)
    THEN [err |-> TRUE, doc |-> AbsentDoc]
    ELSE [err |-> FALSE, doc |-> DocAt(st, <<i, n, r, d>>)]

---------------------------------------------------------------------------
(* package repository *)

Repo(i, named) == [Index |-> i, Name |-> IF named THEN <<"r">> ELSE <<>>]

IsBase(r) == r.Index = 0

\* RepositoryCollection.Base: [found, repo]
Base(c) ==
    IF \E j \in 1..Len(c) : c[j].Index = 0
    THEN [found |-> TRUE,
          repo |-> c[CHOOSE j \in 1..Len(c) :
                        c[j].Index = 0 /\ \A h \in 1..(j - 1) : c[h].Index # 0]]
    ELSE [found |-> FALSE, repo |-> Repo(0, FALSE)]

IsOverride(r) == ~IsBase(r)

Layers(c) == SelectSeq(c, IsOverride)

\* The ascending sequence of a set of integers (sort.Sort(sort.IntSlice)).
RECURSIVE Ascending(_)
Ascending(S) ==
    IF S = {} THEN <<>>
    ELSE LET m == CHOOSE x \in S : \A y \in S : x <= y
         IN <<m>> \o Ascending(S \ {m})

RECURSIVE Descending(_)
Descending(S) ==
    IF S = {} THEN <<>>
    ELSE LET m == CHOOSE x \in S : \A y \in S : x >= y
         IN <<m>> \o Descending(S \ {m})

\* kv.Keys(RepositoryRoot+"/", "/"): every index with a key below it.
Listed(st) ==
    {i \in Idx :
        \/ i \in st.names
        \/ i = 0 /\ st.indexDoc.kind # "absent"
        \/ \E k \in DOMAIN st.docs : k[1] = i}

indexesUnsorted(st) == Descending(Listed(st))

indexes(st) == Ascending(Listed(st))

\* name(client, idx): [err, name]; an absent key gives "" and no error.
name(st, idx) ==
    IF st.failKey = NameKey(idx)
    THEN [err |-> TRUE, named |-> FALSE]
    ELSE [err |-> FALSE, named |-> idx \in st.names]

RECURSIVE RepositoriesOf(_, _)
RepositoriesOf(st, idxs) ==
    IF idxs = <<>> THEN <<>>
    ELSE LET got == name(st, Head(idxs))
         IN  IF got.err
             THEN RepositoriesOf(st, Tail(idxs))
             ELSE <<Repo(Head(idxs), got.named)>> \o RepositoriesOf(st, Tail(idxs))

Repositories(st) == RepositoriesOf(st, indexes(st))

\* func Layers(client)
RepositoryLayers(st) == Layers(Repositories(st))

\* BaseRepository: [err, found, repo]; an absent name key gives nil, nil.
BaseRepository(st) ==
    IF st.failKey = NameKey(0)
    THEN [err |-> "StoreError", found |-> FALSE, repo |-> Repo(0, FALSE)]
    ELSE IF 0 \notin st.names
         THEN [err |-> "nil", found |-> FALSE, repo |-> Repo(0, FALSE)]
         ELSE [err |-> "nil", found |-> TRUE, repo |-> Repo(0, TRUE)]

\* The Install methods of these names are not part of the source at hand;
\* they are taken to hand the store's client to the functions above.
installRepositories(st) == Repositories(st)
installLayerRepositories(st) == RepositoryLayers(st)
installBaseRepository(st) == BaseRepository(st)

---------------------------------------------------------------------------
(* package install: the catalog *)

PackageVersion(version, index, supported) ==
    [Version |-> version, Index |-> index, Supported |-> supported]

\* packageIndexEntry and Package without their inert fields (Description,
\* Framework, Tags).
IndexEntry(n, cv, versions) == [Name |-> n, CurrentVersion |-> cv, Versions |-> versions]

ToPackage(e) ==
    [Name |-> e.Name,
     CurrentVersion |-> e.CurrentVersion,
     Supported |-> FALSE,
     Versions |-> [v \in DOMAIN e.Versions |-> PackageVersion(v, e.Versions[v], FALSE)]]

PackageVersions(p) == {p.Versions[v] : v \in DOMAIN p.Versions}

SupportedVersions(p) == {pv \in PackageVersions(p) : pv.Supported}

HasSupportedVersion(p) == SupportedVersions(p) # {}

\* The versions sort.Sort(packageVersionByMostRecent) may put first: the
\* sort is not stable and the map's order is random, so any version no
\* other version's Index exceeds.
MostRecent(pvs) == {pv \in pvs : \A o \in pvs : ~StrLess(pv.Index, o.Index)}

\* The versions FindPackageVersion may return ({} for nil).
FindPackageVersion(p, version) ==
    {pv \in PackageVersions(p) : EqualFold(pv.Version, TrimSpace(version))}

FindLatestSupportedVersion(p) ==
    IF HasSupportedVersion(p)
    THEN MostRecent(SupportedVersions(p))
    ELSE MostRecent(PackageVersions(p))

\* The versions FindLatestPackageVersion may return ({} for nil).
FindLatestPackageVersion(p) == MostRecent(PackageVersions(p))

\* packageIndexEntries: [err, ok, entries]; an absent base repository or
\* index gives nil, nil.
packageIndexEntries(st) ==
    LET none == [err |-> "nil", ok |-> FALSE, entries |-> <<>>]
        baseRepo == installBaseRepository(st)
    IN  IF baseRepo.err # "nil" \/ ~baseRepo.found
        THEN [none EXCEPT !.err = baseRepo.err]
        ELSE IF st.failKey = IndexKey
             THEN [none EXCEPT !.err = "StoreError"]
             ELSE IF st.indexDoc.kind = "absent"
                  THEN none
                  ELSE IF st.indexDoc.kind # "json"
                       THEN [none EXCEPT !.err = "IndexParseError"]
                       ELSE [err |-> "nil", ok |-> TRUE, entries |-> st.indexDoc.val]

\* The inner loop of setSupportedVersions for one version: every layer's
\* probe assigns the flag.
RECURSIVE ProbeLayers(_, _, _, _)
ProbeLayers(st, p, pv, layers) ==
    IF layers = <<>> THEN pv
    ELSE ProbeLayers(st, p,
            [pv EXCEPT !.Supported =
                KvGetDoc(st, Head(layers).Index, p.Name, pv.Index, "mantl.json").doc.kind
                    # "absent"],
            Tail(layers))

setSupportedVersions(st, p) ==
    LET layers == installLayerRepositories(st)
        probed == [p EXCEPT !.Versions =
                      [v \in DOMAIN p.Versions |->
                          ProbeLayers(st, p, p.Versions[v], layers)]]
    IN  [probed EXCEPT !.Supported = HasSupportedVersion(probed)]

setCurrentVersionLatestOfAll(p) ==
    IF ~p.Supported \/ ~HasSupportedVersion(p)
    THEN {p}
    ELSE IF p.CurrentVersion \in DOMAIN p.Versions /\ p.Versions[p.CurrentVersion].Supported
         THEN {p}
         ELSE {[p EXCEPT !.CurrentVersion = pv.Version] : pv \in MostRecent(PackageVersions(p))}

\* The packages setCurrentVersion may leave.
setCurrentVersion(p) ==
    IF ~p.Supported \/ ~HasSupportedVersion(p)
    THEN {p}
    ELSE IF p.CurrentVersion \in DOMAIN p.Versions /\ p.Versions[p.CurrentVersion].Supported
         THEN {p}
         ELSE {[p EXCEPT !.CurrentVersion = pv.Version] : pv \in MostRecent(SupportedVersions(p))}

\* The sequences whose i-th element is drawn from the i-th set.
RECURSIVE SeqChoices(_)
SeqChoices(ss) ==
    IF ss = <<>> THEN {<<>>}
    ELSE {<<h>> \o t : h \in Head(ss), t \in SeqChoices(Tail(ss))}

\* The outcomes of getPackages: [err, packages].
getPackages(st) ==
    LET index == packageIndexEntries(st)
        entries == index.entries
    IN  IF index.err # "nil"
        THEN {[err |-> index.err, packages |-> <<>>]}
        ELSE {[err |-> "nil", packages |-> ps] :
                ps \in SeqChoices([i \in 1..Len(entries) |->
                        setCurrentVersion(setSupportedVersions(st, ToPackage(entries[i])))])}

---------------------------------------------------------------------------
(* package install: GetPackageDefinition *)

\* The outcomes of getPackageByName: [err, found, pkg]; nil, nil when no
\* package has the name.
getPackageByName(st, n) ==
    LET nopkg == ToPackage(IndexEntry(<<>>, <<>>, EmptyMap))
        find(ps) ==
            IF \E j \in 1..Len(ps) : EqualFold(TrimSpace(n), ps[j].Name)
            THEN [err |-> "nil", found |-> TRUE,
                  pkg |-> ps[CHOOSE j \in 1..Len(ps) :
                              /\ EqualFold(TrimSpace(n), ps[j].Name)
                              /\ \A h \in 1..(j - 1) : ~EqualFold(TrimSpace(n), ps[h].Name)]]
            ELSE [err |-> "nil", found |-> FALSE, pkg |-> nopkg]
    IN  {IF o.err # "nil"
         THEN [err |-> o.err, found |-> FALSE, pkg |-> nopkg]
         ELSE find(o.packages) : o \in getPackages(st)}

\* getPackageDefinitionFile: the bytes read, empty on an error or an absent key.
getPackageDefinitionFile(st, d, i, n, r) ==
    LET got == KvGetDoc(st, i, n, r, d)
    IN  IF got.err THEN EmptyDoc
        ELSE IF got.doc.kind # "absent" THEN got.doc
        ELSE EmptyDoc

\* The body of the loop over the repositories, for one repository.
Collect(st, p, pv, repo, d) ==
    LET pick(doc, old) ==
            LET data == getPackageDefinitionFile(st, doc, repo.Index, p.Name, pv.Index)
            IN  IF NonEmpty(data) THEN data ELSE old
    IN  [d EXCEPT !.commandJson = pick("command.json", @),
                  !.configJson = pick("config.json", @),
                  !.marathonJson = pick("marathon.json", @),
                  !.packageJson = pick("package.json", @),
                  !.optionsJson = pick("mantl.json", @)]

RECURSIVE Assemble(_, _, _, _, _)
Assemble(st, p, pv, repos, d) ==
    IF repos = <<>> THEN d
    ELSE Assemble(st, p, pv, Tail(repos), Collect(st, p, pv, Head(repos), d))

FrameworkNameKey == "framework-name"

\* The outcomes of GetPackageDefinition: [err, def]. A nil package is
\* dereferenced by pkg.FindPackageVersion: the handler panics.
GetPackageDefinitionOutcomes(st, n, version) ==
    LET fail(e) == [err |-> e, def |-> NoDefinition]
        build(p, pv) ==
            LET d == Assemble(st, p, pv, installRepositories(st),
                        [NoDefinition EXCEPT !.ok = TRUE, !.name = p.Name,
                                             !.version = pv.Version, !.release = pv.Index])
                c == MergedConfig(d)
            IN  IF c.err # "nil" THEN fail(c.err)
                ELSE [err |-> "nil",
                      def |-> IF FrameworkNameKey \in DOMAIN c.val
                                 /\ c.val[FrameworkNameKey].k = "str"
                              THEN [d EXCEPT !.frameworkName = c.val[FrameworkNameKey].s]
                              ELSE d]
        resolve(p) ==
            LET found == FindPackageVersion(p, version)
                pvs == IF found # {} THEN found ELSE FindLatestPackageVersion(p)
            IN  IF pvs = {} THEN {fail("NoInstallableVersion")}
                ELSE {build(p, pv) : pv \in pvs}
    IN  UNION {IF r.err # "nil" THEN {fail(r.err)}
               ELSE IF ~r.found THEN {fail("panic")}
               ELSE resolve(r.pkg) : r \in getPackageByName(st, n)}

---------------------------------------------------------------------------
(* The stores and the requests the handlers are run on *)

\* The subsets of S of at most n elements.
RECURSIVE SubsetsUpTo(_, _)
SubsetsUpTo(S, n) ==
    IF n = 0 THEN {{}}
    ELSE LET prev == SubsetsUpTo(S, n - 1)
         IN prev \cup {T \cup {x} : T \in prev, x \in S}

\* A well-formed document of layer i: each layer's content differs.
Good(i, d) ==
    CASE d = "config.json" ->
            JsonDoc(Group("object", Nil,
                ("instances" :> Group("integer", Num(i), EmptyMap))
                @@ (FrameworkNameKey :> Group("string", Str(<<"f", i>>), EmptyMap))))
      [] d = "mantl.json" -> JsonDoc(("instances" :> Num(10 + i)))
      [] OTHER -> JsonDoc(Num(i))

NoRequest == [name |-> <<>>, version |-> <<>>]

NameRequests == {<<" ", "Z", "K", " ">>, <<"n", "o">>}
VersionRequests == {<<>>, <<" ", "V", "1", " ">>, v9}

IndexOf(vs, cv) ==
    JsonDoc(<<IndexEntry(Kafka, <<"1">>, KafkaVersions),
              IndexEntry(zk, cv, Restrict(ZkVersions, vs))>>)

ProbeKeys == {k \in DocKeys : k[1] >= 1 /\ k[4] = "mantl.json"}

FailKeys ==
    {NoKey, NameKey(0), NameKey(1), IndexKey}
        \cup {DocKey(k[1], k[2], k[3], k[4]) : k \in {q \in ProbeKeys : q[2] = zk}}

HandlerInit ==
    /\ op = "none"
    /\ req = NoRequest
    /\ packages = <<>>
    /\ def = NoDefinition
    /\ err = "nil"

ConfigIdle ==
    /\ px = <<>>
    /\ py = <<>>
    /\ pout = <<>>

\* Stores that vary the named layers (0..j, none for j = -1; a layer that
\* holds a document needs no name to be listed), the index, the options
\* documents of the override layers and the failing read.
InitCatalog ==
    /\ names \in {0..j : j \in -1..MaxLayer}
    /\ indexDoc \in {AbsentDoc} \cup {IndexOf(vs, cv) : vs \in SUBSET {v1, V2}, cv \in {V2, v9}}
    /\ \E S \in SubsetsUpTo(ProbeKeys, MaxDocs) :
          docs = [k \in S |-> Good(k[1], k[4])]
    /\ failKey \in FailKeys

AssemblyKeys == {k \in DocKeys : k[2] = zk /\ k[3] = ZkVersions[v1]}

\* Stores that vary the five documents of one version over all layers.
InitDocuments ==
    /\ names = Idx
    /\ indexDoc = IndexOf({v1, V2}, v1)
    /\ \E S \in SubsetsUpTo(AssemblyKeys, MaxDocs) :
          \E f \in [S -> {"empty", "garbage", "json"}] :
              docs = [k \in S |->
                         IF f[k] = "json" THEN Good(k[1], k[4])
                         ELSE IF f[k] = "garbage" THEN GarbageDoc
                         ELSE EmptyDoc]
    /\ failKey = NoKey

Init ==
    /\ InitCatalog \/ InitDocuments
    /\ HandlerInit
    /\ ConfigIdle

\* A behaviour is one request served from one store: the handlers keep no
\* state from one request to the next.

\* The catalog build.
GetPackages ==
    /\ op = "none"
    /\ \E o \in getPackages(TheStore) :
          /\ packages' = o.packages
          /\ err' = o.err
    /\ op' = "getPackages"
    /\ req' = NoRequest
    /\ def' = NoDefinition
    /\ UNCHANGED <<storeVars, configVars>>

GetPackageDefinition(n, version) ==
    /\ op = "none"
    /\ \E o \in GetPackageDefinitionOutcomes(TheStore, n, version) :
          /\ def' = o.def
          /\ err' = o.err
    /\ op' = "GetPackageDefinition"
    /\ req' = [name |-> n, version |-> version]
    /\ packages' = <<>>
    /\ UNCHANGED <<storeVars, configVars>>

Next ==
    \/ GetPackages
    \/ \E n \in NameRequests, version \in VersionRequests : GetPackageDefinition(n, version)

Spec == Init /\ [][Next]_vars

---------------------------------------------------------------------------
(* The configuration functions on their own inputs *)

MergeScalars == {Num(1), Num(2), Num(9)}
MergeMaps ==
    Maps({"a", "b"}, MergeScalars \cup {Obj(m) : m \in Maps({"b", "c"}, MergeScalars)})

SchemaLeaves ==
    {Group(t, dflt, EmptyMap) : t \in {"object", "integer"}, dflt \in {Nil, Num(3)}}
SchemaNodes ==
    {Group(t, dflt, sub) : t \in {"object", "integer"},
                           dflt \in {Nil, Num(3), Obj(("port" :> Num(3)))},
                           sub \in Maps({"port"}, SchemaLeaves)}
Schemas == {Group("object", Nil, props) : props \in Maps({"instances", "zookeeper"}, SchemaNodes)}

OptionMaps ==
    Maps({"instances", "zookeeper"},
         {Num(5)} \cup {Obj(m) : m \in Maps({"port"}, {Num(5), Num(7)})})

Bundle(command, config, marathon, package, options) ==
    [NoDefinition EXCEPT !.ok = TRUE, !.commandJson = command, !.configJson = config,
                         !.marathonJson = marathon, !.packageJson = package,
                         !.optionsJson = options]

\* Every combination of empty and non-empty documents.
PresenceBundles ==
    {Bundle(c, s, m, p, o) :
        c \in {EmptyDoc, JsonDoc(Num(1))},
        s \in {EmptyDoc, JsonDoc(Group("object", Nil, EmptyMap))},
        m \in {EmptyDoc, JsonDoc(Num(1))},
        p \in {EmptyDoc, JsonDoc(Num(1))},
        o \in {EmptyDoc, JsonDoc(EmptyMap)}}

\* Every schema document with every options document.
ConfigBundles ==
    {Bundle(EmptyDoc, s, EmptyDoc, EmptyDoc, o) :
        s \in {EmptyDoc, GarbageDoc} \cup {JsonDoc(g) : g \in Schemas},
        o \in {EmptyDoc, GarbageDoc} \cup {JsonDoc(m) : m \in OptionMaps}}

InitConfig ==
    /\ names = {}
    /\ indexDoc = AbsentDoc
    /\ docs = <<>>
    /\ failKey = NoKey
    /\ req = NoRequest
    /\ packages = <<>>
    /\ def = NoDefinition
    /\ err = "nil"
    /\ pout = <<>>
    /\ \/ /\ op = "call mergeConfig"
          /\ px \in MergeMaps
          /\ py \in MergeMaps
       \/ /\ op = "call packageDefinition"
          /\ px \in PresenceBundles \cup ConfigBundles
          /\ py = <<>>

MergeConfigStep ==
    /\ op = "call mergeConfig"
    /\ pout' = mergeConfig(px, py)
    /\ op' = "mergeConfig"
    /\ UNCHANGED <<storeVars, req, packages, def, err, px, py>>

MergedConfigStep ==
    /\ op = "call packageDefinition"
    /\ pout' = MergedConfig(px)
    /\ op' = "MergedConfig"
    /\ UNCHANGED <<storeVars, req, packages, def, err, px, py>>

IsValidStep ==
    /\ op = "call packageDefinition"
    /\ pout' = IsValid(px)
    /\ op' = "IsValid"
    /\ UNCHANGED <<storeVars, req, packages, def, err, px, py>>

NextConfig ==
    \/ MergeConfigStep
    \/ MergedConfigStep
    \/ IsValidStep

SpecConfig == InitConfig /\ [][NextConfig]_vars

---------------------------------------------------------------------------
(* Properties of the catalog build *)

CatalogBuilt == op = "getPackages" /\ err = "nil"

\* The versions of a package of the catalog that the build marked supported.
Marked(p) == {v \in DOMAIN p.Versions : p.Versions[v].Supported}

\* Some override layer holds an options document for release r of package n.
HeldByALayer(n, r) == \E i \in 1..MaxLayer : <<i, n, r, "mantl.json">> \in DOMAIN docs

\* C1: after the catalog build, with no store read failing, a version is
\* marked supported if and only if at least one override layer holds an
\* options document (mantl.json) at the version's location, whichever layer
\* it is.
C1_SupportedIffAnyLayerHolds ==
    (CatalogBuilt /\ failKey = NoKey) =>
        \A j \in 1..Len(packages) :
            \A v \in DOMAIN packages[j].Versions :
                packages[j].Versions[v].Supported
                    <=> HeldByALayer(packages[j].Name, packages[j].Versions[v].Index)

\* The store in which no read fails and the failing probe's document is
\* absent from its layer, the layer itself still listed (by its name key).
StoreWithProbeAbsent ==
    [TheStore EXCEPT !.failKey = NoKey,
                     !.names = names \cup {failKey.k[1]},
                     !.docs = Restrict(docs, {k \in DOMAIN docs : k # failKey.k})]

\* The failing read is a probe the build makes: its layer is listed.
ProbeFails == failKey.t = "doc" /\ failKey.k[1] \in Listed(TheStore)

\* C2: when one override-layer probe fails with a store error, the catalog
\* build ends without error and returns a catalog the build returns in the
\* run where that probe finds no document: every version of every package
\* has the same supported flag, every package the same currentVersion.
C2_ProbeErrorCountsAsAbsent ==
    (op = "getPackages" /\ ProbeFails) =>
        /\ err = "nil"
        /\ [err |-> err, packages |-> packages] \in getPackages(StoreWithProbeAbsent)

\* A build in which the probe of an existing document failed, the probed
\* version is not marked, and a version of another package is.
C2_Witness ==
    /\ CatalogBuilt
    /\ ProbeFails
    /\ failKey.k \in DOMAIN docs
    /\ \E j \in 1..Len(packages) :
          /\ packages[j].Name = failKey.k[2]
          /\ \E v \in DOMAIN packages[j].Versions :
                /\ packages[j].Versions[v].Index = failKey.k[3]
                /\ ~packages[j].Versions[v].Supported
    /\ \E j \in 1..Len(packages) : packages[j].Name # failKey.k[2] /\ Marked(packages[j]) # {}

\* C3: a package without a supported version keeps the currentVersion the
\* base index declares; a declared currentVersion that names a supported
\* version is kept; otherwise currentVersion becomes a supported version
\* whose releaseIndex no supported version's exceeds in Go's string order.
\* Hence a package marked supported has a supported currentVersion.
C3_CurrentVersionPolicy ==
    CatalogBuilt =>
        \A j \in 1..Len(packages) :
            LET p == packages[j]
                declared == indexDoc.val[j].CurrentVersion
            IN  /\ Marked(p) = {} => p.CurrentVersion = declared
                /\ declared \in Marked(p) => p.CurrentVersion = declared
                /\ (Marked(p) # {} /\ declared \notin Marked(p)) =>
                      /\ p.CurrentVersion \in Marked(p)
                      /\ \A o \in Marked(p) :
                            ~StrLess(p.Versions[p.CurrentVersion].Index, p.Versions[o].Index)
                /\ p.Supported => p.CurrentVersion \in Marked(p)

\* A build that replaced an undeclared currentVersion by v1 (release "9"),
\* the greater of two supported versions in string order ("9" > "10").
C3_Witness ==
    /\ CatalogBuilt
    /\ \E j \in 1..Len(packages) :
          /\ Marked(packages[j]) = {v1, V2}
          /\ indexDoc.val[j].CurrentVersion = v9
          /\ packages[j].CurrentVersion = v1

\* C8: without a name key of layer 0 the catalog build reports the missing
\* base repository to its caller; with it, Base() of the repositories is the
\* layer of index 0 and Layers() holds every other layer in ascending order.
C8_MissingBaseIsReported ==
    /\ (op = "getPackages" /\ 0 \notin names /\ failKey = NoKey) => err # "nil"
    /\ (0 \in names /\ failKey = NoKey) =>
          LET repos == Repositories(TheStore)
              layers == Layers(repos)
          IN  /\ Base(repos).found /\ Base(repos).repo.Index = 0
              /\ {layers[j].Index : j \in 1..Len(layers)} = Listed(TheStore) \ {0}
              /\ \A j \in 1..(Len(layers) - 1) : layers[j].Index < layers[j + 1].Index

---------------------------------------------------------------------------
(* Properties of GetPackageDefinition *)

\* The catalog is built from a readable base index.
IndexRead ==
    /\ 0 \in names
    /\ indexDoc.kind = "json"
    /\ failKey \notin {NameKey(0), IndexKey}

\* The index entries whose name the request names.
Named == {j \in 1..Len(indexDoc.val) : EqualFold(TrimSpace(req.name), indexDoc.val[j].Name)}

Requested == indexDoc.val[CHOOSE j \in Named : \A h \in Named : j <= h]

\* C4: a requested version that equals a version key of the package, case
\* folded and the request trimmed, is the version resolved, supported or not;
\* any other request resolves to a version whose releaseIndex no version of
\* the package exceeds, supported or not; a package without versions fails
\* with NoInstallableVersion and no bundle.
C4_VersionResolution ==
    (op = "GetPackageDefinition" /\ IndexRead /\ Named # {}) =>
        LET versions == Requested.Versions
            wanted == TrimSpace(req.version)
        IN  /\ DOMAIN versions = {} => (err = "NoInstallableVersion" /\ ~def.ok)
            /\ DOMAIN versions # {} => err # "NoInstallableVersion"
            /\ err = "nil" =>
                  /\ def.ok
                  /\ def.version \in DOMAIN versions
                  /\ def.release = versions[def.version]
                  /\ IF \E v \in DOMAIN versions : EqualFold(v, wanted)
                     THEN EqualFold(def.version, wanted)
                     ELSE \A o \in DOMAIN versions :
                            ~StrLess(versions[def.version], versions[o])

\* A request " V1 " resolved to v1, which no override layer supports, while V2
\* is supported.
C4_Witness ==
    /\ op = "GetPackageDefinition"
    /\ err = "nil"
    /\ req.version = <<" ", "V", "1", " ">>
    /\ def.version = v1
    /\ ~HeldByALayer(zk, ZkVersions[v1])
    /\ HeldByALayer(zk, ZkVersions[V2])

Field(d) ==
    CASE d = "command.json" -> "commandJson"
      [] d = "config.json" -> "configJson"
      [] d = "marathon.json" -> "marathonJson"
      [] d = "package.json" -> "packageJson"
      [] d = "mantl.json" -> "optionsJson"

\* The layers in which document d of the resolved version is read non-empty.
Defining(d) ==
    {i \in Idx :
        /\ failKey # NameKey(i)
        /\ failKey # DocKey(i, def.name, def.release, d)
        /\ <<i, def.name, def.release, d>> \in DOMAIN docs
        /\ NonEmpty(docs[<<i, def.name, def.release, d>>])}

Highest(S) == CHOOSE i \in S : \A h \in S : h <= i

\* C5: each of the five documents of the assembled bundle is the content of
\* the highest-index layer (the base being the lowest) in which it is read
\* non-empty, each document on its own, and is empty when no layer has it.
C5_HighestLayerWinsPerDocument ==
    (op = "GetPackageDefinition" /\ def.ok) =>
        \A d \in DocNames :
            IF Defining(d) = {}
            THEN ~NonEmpty(def[Field(d)])
            ELSE def[Field(d)] = docs[<<Highest(Defining(d)), def.name, def.release, d>>]

\* A bundle whose schema comes from an override layer above the base's own
\* schema, the contents differing.
C5_Witness ==
    /\ op = "GetPackageDefinition"
    /\ def.ok
    /\ Cardinality(Defining("config.json")) = 2
    /\ 0 \in Defining("config.json")
    /\ def.configJson # docs[<<0, def.name, def.release, "config.json">>]

\* C7: a request that names no package of the catalog ends in NotFound,
\* without a bundle and without a crash.
C7_UnknownNameIsNotFound ==
    (op = "GetPackageDefinition" /\ IndexRead /\ failKey = NoKey /\ Named = {}) =>
        (err = "NotFound" /\ ~def.ok)

---------------------------------------------------------------------------
(* Properties of the configuration functions *)

\* C6 as the specification states it: a bundle is valid if and only if its
\* command, schema, template and package documents are all non-empty.
C6_ValidNeedsCommand ==
    op = "IsValid" =>
        (pout <=> /\ NonEmpty(px.commandJson)
                  /\ NonEmpty(px.configJson)
                  /\ NonEmpty(px.marathonJson)
                  /\ NonEmpty(px.packageJson))

\* C6, amended: a bundle is valid if and only if its schema, template and
\* package documents are all non-empty; neither the command document nor
\* the options document is required.
C6_ValidNeedsSchemaTemplatePackage ==
    op = "IsValid" =>
        (pout <=> /\ NonEmpty(px.configJson)
                  /\ NonEmpty(px.marathonJson)
                  /\ NonEmpty(px.packageJson))

\* A bundle found valid without a command and without an options document.
C6_Witness ==
    /\ op = "IsValid"
    /\ pout = TRUE
    /\ ~NonEmpty(px.commandJson)
    /\ ~NonEmpty(px.optionsJson)

\* The right-biased merge of two mappings of mappings of scalars: a key of
\* the override whose two values are mappings gets the field-by-field
\* overlay, any other key of the override its override value, and a key of
\* the base alone its base value.
Overlay(base, override) ==
    [k \in DOMAIN base \cup DOMAIN override |->
        IF k \notin DOMAIN override THEN base[k]
        ELSE IF k \in DOMAIN base /\ base[k].k = "obj" /\ override[k].k = "obj"
             THEN Obj([j \in DOMAIN base[k].m \cup DOMAIN override[k].m |->
                          IF j \in DOMAIN override[k].m
                          THEN override[k].m[j]
                          ELSE base[k].m[j]])
             ELSE override[k]]

NestedBase == ("a" :> Obj(("b" :> Num(1)) @@ ("c" :> Num(2))))
NestedOverride == ("a" :> Obj(("c" :> Num(9))))
NestedMerged == ("a" :> Obj(("b" :> Num(1)) @@ ("c" :> Num(9))))

\* C9: mergeConfig(base, override) is the recursive right-biased merge;
\* merging with the empty mapping on either side gives the other mapping,
\* merging mappings of disjoint keys gives the union of their entries, and
\* merge({a:{b:1,c:2}}, {a:{c:9}}) is {a:{b:1,c:9}}.
C9_MergeIsRightBiased ==
    op = "mergeConfig" =>
        /\ pout = Overlay(px, py)
        /\ py = EmptyMap => pout = px
        /\ px = EmptyMap => pout = py
        /\ DOMAIN px \cap DOMAIN py = {} =>
              /\ DOMAIN pout = DOMAIN px \cup DOMAIN py
              /\ \A k \in DOMAIN px : pout[k] = px[k]
              /\ \A k \in DOMAIN py : pout[k] = py[k]
        /\ (px = NestedBase /\ py = NestedOverride) => pout = NestedMerged

\* The nested example, merged field by field.
C9_Witness ==
    /\ op = "mergeConfig"
    /\ px = NestedBase
    /\ py = NestedOverride
    /\ pout = NestedMerged

\* What a schema property contributes to the defaults.
Declares(node) == node.Default # Nil
Contributes(node) == Declares(node) \/ node.Type = "object"

\* extractDefaults of a schema of two levels of properties.
SchemaDefaults(schema) ==
    [n \in {m \in DOMAIN schema.Properties : Contributes(schema.Properties[m])} |->
        LET node == schema.Properties[n]
        IN  IF Declares(node) THEN node.Default
            ELSE Obj([q \in {m \in DOMAIN node.Properties :
                                Contributes(node.Properties[m])} |->
                        IF Declares(node.Properties[q])
                        THEN node.Properties[q].Default
                        ELSE Obj(EmptyMap)])]

InstancesSchema == Group("object", Nil, ("instances" :> Group("integer", Num(3), EmptyMap)))

\* C10: MergedConfig is the merge of the schema's defaults with the options;
\* a malformed schema or options document gives a parse error and no
\* configuration, an empty options document the schema defaults alone, and
\* options instances=5 over the default instances=3 gives instances=5.
C10_MergedConfigIsDefaultsThenOptions ==
    op = "MergedConfig" =>
        LET schema == IF px.configJson.kind = "json" THEN px.configJson.val
                      ELSE Group("", Nil, EmptyMap)
            options == IF px.optionsJson.kind = "json" THEN px.optionsJson.val ELSE EmptyMap
        IN  /\ px.configJson.kind = "garbage" =>
                  (pout.err = "SchemaParseError" /\ pout.val = EmptyMap)
            /\ (px.configJson.kind # "garbage" /\ px.optionsJson.kind = "garbage") =>
                  (pout.err = "OptionsParseError" /\ pout.val = EmptyMap)
            /\ (px.configJson.kind # "garbage" /\ px.optionsJson.kind # "garbage") =>
                  /\ pout.err = "nil"
                  /\ pout.val = Overlay(SchemaDefaults(schema), options)
                  /\ px.optionsJson.kind = "empty" => pout.val = SchemaDefaults(schema)
            /\ (px.configJson = JsonDoc(InstancesSchema)
                    /\ px.optionsJson = JsonDoc(("instances" :> Num(5)))) =>
                  pout.val = ("instances" :> Num(5))

\* Options override one default inside a nested object and leave its sibling
\* top-level default, itself an object property without a default, in place.
C10_Witness ==
    /\ op = "MergedConfig"
    /\ pout.err = "nil"
    /\ px.configJson.kind = "json"
    /\ px.optionsJson.kind = "json"
    /\ DOMAIN px.configJson.val.Properties = {"instances", "zookeeper"}
    /\ DOMAIN pout.val = {"instances", "zookeeper"}
    /\ pout.val["instances"] = Num(5)
    /\ px.configJson.val.Properties["instances"].Default = Num(3)
    /\ "zookeeper" \notin DOMAIN px.optionsJson.val
    /\ ~Declares(px.configJson.val.Properties["zookeeper"])
    /\ pout.val["zookeeper"] = Obj(("port" :> Num(3)))

====
